---- MODULE Spec2Model ----
(***************************************************************************)
(* DecentraTrust AI: the trust score engine (ai-engine/score_service.py),  *)
(* the FastAPI handlers that wrap it (backend/main.py) and the oracle      *)
(* listener that submits scores to the ledger (backend/oracle_listener.py).*)
(*                                                                         *)
(* Numbers.  The code computes in double precision.  Here a real is an     *)
(* integer count of 1/Scale units.  Scale is a multiple of every           *)
(* denominator the formulas introduce (365, 3, 6, 10, 100 and the          *)
(* transaction counts of TxCounts), so every rational term is exact.  The  *)
(* one irrational term, log10, is carried as its floor in 1/Scale units    *)
(* together with the knowledge that the true value lies strictly above     *)
(* that floor (IsIrrational).  Real inputs (avg_transaction_value,         *)
(* frequency_per_day, variance_score) are given in tenths.                 *)
(*                                                                         *)
(* Double precision differs from exact arithmetic in one observable way    *)
(* at these magnitudes: when a term is not exactly representable in binary *)
(* (Inexact) the accumulated error can move a sum that is an exact tie     *)
(* (fraction .5) to either side.  tieBias is the side it moves to.         *)
(***************************************************************************)
EXTENDS Integers, Sequences, FiniteSets, TLC

VARIABLES
    tieBias,        \* "down" | "up": how double rounding error resolves an inexact tie
    metrics,        \* score engine run: the UserMetrics under evaluation
    pc,             \* score engine run: position in evaluate_user's body
    score,          \* score engine run: result of calculate_score, or None
    details,        \* score engine run: result of get_score_details, or None
    tier,           \* score engine run: result of get_tier_from_score, or None
    blockchain_state, \* main.py: the global connection state
    listener,       \* OracleListener: which of its fields are configured
    ledger,         \* transactions sent to the chain, in order
    pending,        \* evaluate_and_push between its two awaits, or None
    lastCall,       \* the last handler call: operation, arguments, what it read
    response        \* what the last handler call returned or raised

engineVars == <<metrics, pc, score, details, tier>>
backendVars == <<blockchain_state, listener, ledger, pending, lastCall, response>>
vars == <<tieBias, metrics, pc, score, details, tier,
          blockchain_state, listener, ledger, pending, lastCall, response>>

None == <<>>
Some(v) == <<v>>

----------------------------------------------------------------------------
(* Arithmetic *)

Scale == 73 * 18000

Min(a, b) == IF a <= b THEN a ELSE b
Max(a, b) == IF a >= b THEN a ELSE b
Abs(a) == IF a < 0 THEN 0 - a ELSE a

\* A value given in tenths, in 1/Scale units.
Tenths(t) == t * (Scale \div 10)

\* math.log10(x) * 3 in 1/Scale units, rounded down, at the arguments
\* max(transaction_count, 1) + 1 of the transaction counts of TxCounts.
Log10Times3(x) ==
    CASE x = 2    -> 1186660
      [] x = 10   -> 3 * Scale
      [] x = 11   -> 4105169
      [] x = 201  -> 9079198
      [] x = 2629 -> 13480814

RECURSIVE IsPowerOfTen(_)
IsPowerOfTen(x) ==
    IF x = 1 THEN TRUE
    ELSE IF x < 10 \/ x % 10 # 0 THEN FALSE
    ELSE IsPowerOfTen(x \div 10)

\* round with every tie taken upward (round half up); a variant that C7 rules out.
round_half_up(n, irrational, inexact) == (2 * n + Scale) \div (2 * Scale)

\* Python's round(x) for a double x, to an integer.  x is n/Scale exactly, or
\* (irrational) lies strictly between n/Scale and (n+1)/Scale.  An exact tie goes
\* to the even neighbour; a tie of a sum that carries rounding error (inexact) has
\* been moved off the tie by that error, to the side tieBias names.
round(n, irrational, inexact) ==
    LET q == n \div Scale
        r == n - q * Scale
    IN  IF irrational THEN (IF 2 * r >= Scale THEN q + 1 ELSE q)
        ELSE IF 2 * r < Scale THEN q
        ELSE IF 2 * r > Scale THEN q + 1
        ELSE IF inexact THEN (IF tieBias = "up" THEN q + 1 ELSE q)
        ELSE IF q % 2 = 0 THEN q ELSE q + 1

\* Python's round(x, 2), in hundredths.
round2(n, irrational, inexact) ==
    LET u == Scale \div 100
        q == n \div u
        r == n - q * u
    IN  IF irrational THEN (IF 2 * r >= u THEN q + 1 ELSE q)
        ELSE IF 2 * r < u THEN q
        ELSE IF 2 * r > u THEN q + 1
        ELSE IF inexact THEN (IF tieBias = "up" THEN q + 1 ELSE q)
        ELSE IF q % 2 = 0 THEN q ELSE q + 1

----------------------------------------------------------------------------
(* score_service.py: UserMetrics *)

\* Bounds of the inputs.  Real-valued fields are in tenths.
MaxDisputes == 7
TxCounts == {0, 9, 10, 2628}
SuccessCounts == {0, 3, 9, 12}
Ages == {0, 1, 29, 30, 73, 365, 547, 548}
Disputes == 0..MaxDisputes
Frequencies == {0, 1, 10, 35, 50, 51, 100, 101, 200, 250}
Variances == {None, Some(0), Some(250), Some(270), Some(300)}
AvgValues == {50, 100}

UserMetrics ==
    [transaction_count : TxCounts,
     avg_transaction_value : AvgValues,
     account_age_days : Ages,
     dispute_count : Disputes,
     successful_transactions : SuccessCounts,
     frequency_per_day : Frequencies,
     variance_score : Variances]

----------------------------------------------------------------------------
(* score_service.py: the terms of calculate_score, in 1/Scale units *)

age_bonus(m) == Min(((m.account_age_days * Scale) \div 365) * 10, 15 * Scale)

has_success_rate(m) == m.transaction_count > 0

success_bonus(m) ==
    LET success_rate == (m.successful_transactions * Scale) \div m.transaction_count
    IN  success_rate * 20

volume_bonus(m) == Min(Log10Times3(Max(m.transaction_count, 1) + 1), 10 * Scale)

has_frequency_bonus(m) == 1 <= m.frequency_per_day /\ m.frequency_per_day <= 50

frequency_bonus(m) ==
    LET frequency_bonus0 == 10 * Scale - Abs(Tenths(m.frequency_per_day) - Scale) * 2
    IN  Max(0, Min(frequency_bonus0, 10 * Scale))

has_variance_bonus(m) == m.variance_score # None /\ m.variance_score[1] < 300

variance_bonus(m) == (30 * Scale - Tenths(m.variance_score[1])) \div 6

\* dispute_penalty with max for min; a variant that C9 rules out.
dispute_penalty_max(m) == Max(m.dispute_count * 5, 30) * Scale

dispute_penalty(m) == Min(m.dispute_count * 5, 30) * Scale

has_new_account_penalty(m) == m.account_age_days < 30

\* new_account_penalty with its operands exchanged; a variant that C8 rules out.
new_account_penalty_swapped(m) == ((m.account_age_days - 30) * Scale) \div 3

new_account_penalty(m) == ((30 - m.account_age_days) * Scale) \div 3

has_high_freq_penalty(m) == m.frequency_per_day > 100

high_freq_penalty(m) == Min((Tenths(m.frequency_per_day) - 10 * Scale) * 2, 20 * Scale)

has_wash_trading_penalty(m) == m.avg_transaction_value < 100 /\ m.frequency_per_day > 50

wash_trading_penalty == 15 * Scale

\* The volume bonus is irrational unless the logarithm's argument is a power of
\* ten or the bonus is capped.
IsIrrational(m) ==
    /\ ~IsPowerOfTen(Max(m.transaction_count, 1) + 1)
    /\ Log10Times3(Max(m.transaction_count, 1) + 1) < 10 * Scale

\* Some term that calculate_score applies is not exactly representable in binary:
\* a quotient by 365, by transaction_count, by 6 or by 3 that is not dyadic, or a
\* frequency that is not a multiple of 0.5.
Inexact(m) ==
    \/ m.account_age_days % 365 # 0 /\ m.account_age_days * 10 < 15 * 365
    \/ has_success_rate(m) /\ m.successful_transactions % m.transaction_count # 0
    \/ has_frequency_bonus(m) /\ m.frequency_per_day % 5 # 0
    \/ has_variance_bonus(m) /\ m.variance_score[1] % 15 # 0
    \/ has_new_account_penalty(m) /\ m.account_age_days % 3 # 0
    \/ has_high_freq_penalty(m) /\ m.frequency_per_day % 5 # 0

\* Inexact, for the terms get_score_details applies (no variance bonus).
InexactDetails(m) ==
    \/ m.account_age_days % 365 # 0 /\ m.account_age_days * 10 < 15 * 365
    \/ has_success_rate(m) /\ m.successful_transactions % m.transaction_count # 0
    \/ has_frequency_bonus(m) /\ m.frequency_per_day % 5 # 0
    \/ has_new_account_penalty(m) /\ m.account_age_days % 3 # 0
    \/ has_high_freq_penalty(m) /\ m.frequency_per_day % 5 # 0

----------------------------------------------------------------------------
(* score_service.py: calculate_score *)

\* The running sum `score` as it stands before the final rounding.
raw_score(m) ==
    LET s0 == 50 * Scale
        s1 == s0 + age_bonus(m)
        s2 == IF has_success_rate(m) THEN s1 + success_bonus(m) ELSE s1
        s3 == s2 + volume_bonus(m)
        s4 == IF has_frequency_bonus(m) THEN s3 + frequency_bonus(m) ELSE s3
        s5 == IF has_variance_bonus(m) THEN s4 + variance_bonus(m) ELSE s4
        s6 == s5 - dispute_penalty(m)
        s7 == IF has_new_account_penalty(m) THEN s6 - new_account_penalty(m) ELSE s6
        s8 == IF has_high_freq_penalty(m) THEN s7 - high_freq_penalty(m) ELSE s7
        s9 == IF has_wash_trading_penalty(m) THEN s8 - wash_trading_penalty ELSE s8
    IN  s9

\* The exceptions the body can raise: ZeroDivisionError in successful_transactions /
\* transaction_count, ValueError (math domain error) in math.log10.
calculate_score_raises(m) ==
    \/ has_success_rate(m) /\ m.transaction_count = 0
    \/ Max(m.transaction_count, 1) + 1 <= 0

\* final_score without the clamp; a variant that C1 rules out.
final_score_unclamped(n, irrational, inexact) == round(n, irrational, inexact)

\* max(0, min(100, round(score)))
final_score(n, irrational, inexact) == Max(0, Min(100, round(n, irrational, inexact)))

calculate_score(m) == final_score(raw_score(m), IsIrrational(m), Inexact(m))

----------------------------------------------------------------------------
(* score_service.py: get_score_details *)

\* A Python dict: a function from its keys.
EmptyDict == [k \in {} |-> 0]
Put(d, k, v) == (k :> v) @@ d

\* The running sum of get_score_details before its final rounding.
details_raw_score(m) ==
    LET s0 == 50 * Scale
        s1 == s0 + age_bonus(m)
        s2 == IF has_success_rate(m) THEN s1 + success_bonus(m) ELSE s1
        s3 == s2 + volume_bonus(m)
        s4 == IF has_frequency_bonus(m) THEN s3 + frequency_bonus(m) ELSE s3
        s5 == IF m.dispute_count > 0 THEN s4 - dispute_penalty(m) ELSE s4
        s6 == IF has_new_account_penalty(m) THEN s5 - new_account_penalty(m) ELSE s5
        s7 == IF has_high_freq_penalty(m) THEN s6 - high_freq_penalty(m) ELSE s6
    IN  s7

\* Magnitudes are in hundredths (round(x, 2)).
get_score_details(m) ==
    LET x == InexactDetails(m)
        f1 == Put(EmptyDict, "account_age", round2(age_bonus(m), FALSE, x))
        f2 == IF has_success_rate(m)
              THEN Put(f1, "success_rate", round2(success_bonus(m), FALSE, x))
              ELSE f1
        f3 == Put(f2, "transaction_volume", round2(volume_bonus(m), IsIrrational(m), FALSE))
        f4 == IF has_frequency_bonus(m)
              THEN Put(f3, "frequency", round2(frequency_bonus(m), FALSE, x))
              ELSE f3
        p1 == IF m.dispute_count > 0
              THEN Put(EmptyDict, "disputes", round2(dispute_penalty(m), FALSE, FALSE))
              ELSE EmptyDict
        p2 == IF has_new_account_penalty(m)
              THEN Put(p1, "new_account", round2(new_account_penalty(m), FALSE, x))
              ELSE p1
        p3 == IF has_high_freq_penalty(m)
              THEN Put(p2, "high_frequency", round2(high_freq_penalty(m), FALSE, x))
              ELSE p2
    IN  [base_score |-> 50,
         factors |-> f4,
         penalties |-> p3,
         final_score |-> final_score(details_raw_score(m), IsIrrational(m), x)]

----------------------------------------------------------------------------
(* main.py: get_tier_from_score *)

\* get_tier_from_score with > for >= at 80; a variant that C2 rules out.
get_tier_from_score_strict(s) ==
    IF s > 80 THEN "FULL"
    ELSE IF s >= 50 THEN "LIMITED"
    ELSE "BLOCKED"

get_tier_from_score(s) ==
    IF s >= 80 THEN "FULL"
    ELSE IF s >= 50 THEN "LIMITED"
    ELSE "BLOCKED"

----------------------------------------------------------------------------
(* main.py: request and response models *)

\* PushScoreRequest: score: int = Field(..., ge=0, le=100)
PushScoreRequest_valid(s) == 0 <= s /\ s <= 100

\* EvaluateResponse: score: int = Field(..., ge=0, le=100)
EvaluateResponse_valid(s) == 0 <= s /\ s <= 100

HTTPException(status_code, detail) ==
    [kind |-> "HTTPException", status_code |-> status_code, detail |-> detail]

\* What FastAPI answers when the request body fails the model's validation.
RequestValidationError == [kind |-> "RequestValidationError", status_code |-> 422]

PushScoreResponse(success, wallet_address, s, message, transaction_hash) ==
    [kind |-> "PushScoreResponse",
     success |-> success,
     wallet_address |-> wallet_address,
     score |-> s,
     message |-> message,
     transaction_hash |-> transaction_hash]

----------------------------------------------------------------------------
(* main.py: the handlers, as functions of the request and the state read *)

\* async def evaluate_user(request): the request carries a wallet address and
\* the metrics.
evaluate_user(wallet_address, m) ==
    LET s == calculate_score(m)
        d == get_score_details(m)
        t == get_tier_from_score(s)
    IN  IF calculate_score_raises(m)
        THEN HTTPException(500, <<"Scoring error: ", "ZeroDivisionError">>)
        ELSE IF EvaluateResponse_valid(s)
        THEN [kind |-> "EvaluateResponse",
              wallet_address |-> wallet_address,
              score |-> s,
              tier |-> t,
              details |-> d]
        ELSE HTTPException(500, <<"Scoring error: ", "ValidationError">>)

\* push_score with the connection test inverted; a variant that C4 rules out.
push_score_inverted(wallet_address, s, connected) ==
    IF ~(0 <= s /\ s <= 100)
    THEN HTTPException(400, <<"Score must be between 0 and 100">>)
    ELSE IF connected
    THEN PushScoreResponse(TRUE, wallet_address, s,
             <<"Score recorded (blockchain not connected - stub mode)">>, None)
    ELSE PushScoreResponse(TRUE, wallet_address, s,
             <<"Score pushed to blockchain">>, Some("0x..."))

\* push_score with the lower bound of its range check missing; a variant that C5 rules out.
push_score_no_lower_bound(wallet_address, s, connected) ==
    IF ~(s <= 100)
    THEN HTTPException(400, <<"Score must be between 0 and 100">>)
    ELSE IF ~connected
    THEN PushScoreResponse(TRUE, wallet_address, s,
             <<"Score recorded (blockchain not connected - stub mode)">>, None)
    ELSE PushScoreResponse(TRUE, wallet_address, s,
             <<"Score pushed to blockchain">>, Some("0x..."))

\* async def push_score(request), with the connection state it reads.
push_score(wallet_address, s, connected) ==
    IF ~(0 <= s /\ s <= 100)
    THEN HTTPException(400, <<"Score must be between 0 and 100">>)
    ELSE IF ~connected
    THEN PushScoreResponse(TRUE, wallet_address, s,
             <<"Score recorded (blockchain not connected - stub mode)">>, None)
    ELSE PushScoreResponse(TRUE, wallet_address, s,
             <<"Score pushed to blockchain">>, Some("0x..."))

\* evaluate_and_push_message without the tier; a variant that C10 rules out.
evaluate_and_push_message_no_tier(evaluate_response, push_response) ==
    <<"Evaluated (score: ", ToString(evaluate_response.score), ") - ">>
        \o push_response.message

\* The message evaluate_and_push writes over the push response's message.
evaluate_and_push_message(evaluate_response, push_response) ==
    <<"Evaluated (score: ", ToString(evaluate_response.score),
      ", tier: ", evaluate_response.tier, ") - ">> \o push_response.message

----------------------------------------------------------------------------
(* Inputs of the handlers *)

MaxLedger == 1

Wallets == {"0xA1", "0xB2"}
Addresses == Wallets \cup {"not-an-address"}
PushScores == {-1, 0, 50, 100, 101}
ListenerScores == {-1, 50, 101}

\* spec section 8, scenarios A, B and C, and a record whose sum is the exact tie 88.5
ScenarioA == [transaction_count |-> 200, avg_transaction_value |-> 5000,
              account_age_days |-> 730, dispute_count |-> 0,
              successful_transactions |-> 198, frequency_per_day |-> 5,
              variance_score |-> None]
ScenarioB == [transaction_count |-> 10, avg_transaction_value |-> 50,
              account_age_days |-> 7, dispute_count |-> 3,
              successful_transactions |-> 5, frequency_per_day |-> 150,
              variance_score |-> None]
ScenarioC == [transaction_count |-> 0, avg_transaction_value |-> 1000,
              account_age_days |-> 400, dispute_count |-> 0,
              successful_transactions |-> 0, frequency_per_day |-> 10,
              variance_score |-> None]
TieRecord == [transaction_count |-> 9, avg_transaction_value |-> 1000,
              account_age_days |-> 365, dispute_count |-> 1,
              successful_transactions |-> 9, frequency_per_day |-> 10,
              variance_score |-> Some(270)]
\* records whose scores are the tier boundaries 80, 79, 50 and 49
Record80 == [transaction_count |-> 9, avg_transaction_value |-> 50,
             account_age_days |-> 365, dispute_count |-> 1,
             successful_transactions |-> 9, frequency_per_day |-> 50,
             variance_score |-> None]
Record79 == [transaction_count |-> 0, avg_transaction_value |-> 50,
             account_age_days |-> 547, dispute_count |-> 0,
             successful_transactions |-> 0, frequency_per_day |-> 1,
             variance_score |-> Some(0)]
Record50 == [transaction_count |-> 9, avg_transaction_value |-> 50,
             account_age_days |-> 0, dispute_count |-> 3,
             successful_transactions |-> 9, frequency_per_day |-> 50,
             variance_score |-> None]
Record49 == [transaction_count |-> 0, avg_transaction_value |-> 50,
             account_age_days |-> 0, dispute_count |-> 0,
             successful_transactions |-> 0, frequency_per_day |-> 1,
             variance_score |-> None]
RequestMetrics == {ScenarioA, ScenarioB, ScenarioC, TieRecord,
                   Record80, Record79, Record50, Record49}

----------------------------------------------------------------------------
(* Initial states *)

InitBackend ==
    /\ blockchain_state = [connected |-> FALSE, oracle_address |-> None,
                           reputation_address |-> None]
    /\ \E oracle_address \in BOOLEAN, private_key \in BOOLEAN :
         listener = [oracle_address |-> oracle_address, private_key |-> private_key,
                     w3 |-> FALSE, oracle_contract |-> FALSE, account |-> FALSE]
    /\ ledger = <<>>
    /\ pending = None
    /\ lastCall = [op |-> "none"]
    /\ response = [kind |-> "none"]

Init ==
    /\ tieBias \in {"down", "up"}
    /\ metrics = None /\ pc = "idle" /\ score = None /\ details = None /\ tier = None
    /\ InitBackend

\* The score engine run: any metrics record, before evaluate_user's three calls.
InitEngine ==
    /\ tieBias \in {"down", "up"}
    /\ metrics \in UserMetrics
    /\ pc = "calculate_score" /\ score = None /\ details = None /\ tier = None
    /\ InitBackend
    /\ listener.oracle_address /\ listener.private_key

----------------------------------------------------------------------------
(* The score engine run: evaluate_user's calls, one at a time *)

\* score = calculate_score(metrics)
Step_calculate_score ==
    /\ pc = "calculate_score"
    /\ IF calculate_score_raises(metrics)
       THEN score' = None /\ pc' = "raised"
       ELSE score' = Some(calculate_score(metrics)) /\ pc' = "get_score_details"
    /\ UNCHANGED <<tieBias, metrics, details, tier, backendVars>>

\* details = get_score_details(metrics)
Step_get_score_details ==
    /\ pc = "get_score_details"
    /\ details' = Some(get_score_details(metrics))
    /\ pc' = "get_tier_from_score"
    /\ UNCHANGED <<tieBias, metrics, score, tier, backendVars>>

\* tier = get_tier_from_score(score)
Step_get_tier_from_score ==
    /\ pc = "get_tier_from_score"
    /\ tier' = Some(get_tier_from_score(score[1]))
    /\ pc' = "done"
    /\ UNCHANGED <<tieBias, metrics, score, details, backendVars>>

NextEngine ==
    \/ Step_calculate_score
    \/ Step_get_score_details
    \/ Step_get_tier_from_score

SpecEngine == InitEngine /\ [][NextEngine]_vars

----------------------------------------------------------------------------
(* main.py: blockchain_state, written from outside the handlers *)

\* "Blockchain connection state (will be set by oracle_listener)"
SetConnected ==
    /\ \E connected \in BOOLEAN :
         /\ connected # blockchain_state.connected
         /\ blockchain_state' = [blockchain_state EXCEPT !.connected = connected]
    /\ UNCHANGED <<tieBias, engineVars, listener, ledger, pending, lastCall, response>>

----------------------------------------------------------------------------
(* main.py: the handlers.  A handler runs to its end once started: it awaits  *)
(* nothing that suspends.  evaluate_and_push is taken in two steps, at its    *)
(* two awaits, so that the connection state may change between them.          *)

\* GET /health
HealthCheck ==
    /\ pending = None
    /\ lastCall' = [op |-> "health_check"]
    /\ response' = [kind |-> "HealthResponse", status |-> "healthy",
                    version |-> "1.0.0",
                    blockchain_connected |-> blockchain_state.connected,
                    oracle_address |-> blockchain_state.oracle_address]
    /\ UNCHANGED <<tieBias, engineVars, blockchain_state, listener, ledger, pending>>

\* POST /evaluate
EvaluateUser ==
    /\ pending = None
    /\ \E wallet_address \in Wallets, m \in RequestMetrics :
         /\ lastCall' = [op |-> "evaluate_user", wallet_address |-> wallet_address,
                         metrics |-> m]
         /\ response' = evaluate_user(wallet_address, m)
    /\ UNCHANGED <<tieBias, engineVars, blockchain_state, listener, ledger, pending>>

\* PushScore that also marks the ledger connected; a variant that C14 rules out.
PushScore_sets_connected ==
    /\ pending = None
    /\ \E wallet_address \in Wallets, s \in PushScores, validated \in BOOLEAN :
         /\ lastCall' = [op |-> "push_score", wallet_address |-> wallet_address,
                         score |-> s, validated |-> validated,
                         connected |-> blockchain_state.connected]
         /\ response' = IF validated /\ ~PushScoreRequest_valid(s)
                        THEN RequestValidationError
                        ELSE push_score(wallet_address, s, blockchain_state.connected)
    /\ blockchain_state' = [blockchain_state EXCEPT !.connected = TRUE]
    /\ UNCHANGED <<tieBias, engineVars, listener, ledger, pending>>

\* POST /push-score.  validated: the request was built by PushScoreRequest(...),
\* which validates; otherwise its score was set without validation
\* (model_construct, attribute assignment).
PushScore ==
    /\ pending = None
    /\ \E wallet_address \in Wallets, s \in PushScores, validated \in BOOLEAN :
         /\ lastCall' = [op |-> "push_score", wallet_address |-> wallet_address,
                         score |-> s, validated |-> validated,
                         connected |-> blockchain_state.connected]
         /\ response' = IF validated /\ ~PushScoreRequest_valid(s)
                        THEN RequestValidationError
                        ELSE push_score(wallet_address, s, blockchain_state.connected)
    /\ UNCHANGED <<tieBias, engineVars, blockchain_state, listener, ledger, pending>>

\* POST /evaluate-and-push, to its first await:
\*   evaluate_response = await evaluate_user(request)
EvaluateAndPush_evaluate ==
    /\ pending = None
    /\ \E wallet_address \in Wallets, m \in RequestMetrics :
         LET evaluate_response == evaluate_user(wallet_address, m)
             call == [op |-> "evaluate_and_push", wallet_address |-> wallet_address,
                      metrics |-> m,
                      calls |-> <<[fn |-> "evaluate_user",
                                   wallet_address |-> wallet_address,
                                   returned |-> evaluate_response]>>]
         IN  /\ lastCall' = call
             /\ IF evaluate_response.kind = "HTTPException"
                THEN /\ response' = evaluate_response
                     /\ pending' = None
                ELSE /\ response' = [kind |-> "running"]
                     /\ pending' = Some(call)
    /\ UNCHANGED <<tieBias, engineVars, blockchain_state, listener, ledger>>

\* POST /evaluate-and-push, from its first await to its end:
\*   push_request = PushScoreRequest(...); push_response = await push_score(...)
\*   push_response.message = f"Evaluated (...) - {push_response.message}"
EvaluateAndPush_push ==
    /\ pending # None
    /\ LET call == pending[1]
           evaluate_response == call.calls[1].returned
           wallet_address == call.wallet_address
           s == evaluate_response.score
           push_response == push_score(wallet_address, s, blockchain_state.connected)
       IN  IF ~PushScoreRequest_valid(s)
           THEN /\ response' = [kind |-> "ValidationError"]
                /\ lastCall' = call
           ELSE /\ lastCall' =
                     [call EXCEPT !.calls = Append(@,
                         [fn |-> "push_score", wallet_address |-> wallet_address,
                          score |-> s, connected |-> blockchain_state.connected,
                          returned |-> push_response])]
                /\ response' =
                     IF push_response.kind = "PushScoreResponse"
                     THEN [push_response EXCEPT !.message =
                              evaluate_and_push_message(evaluate_response, push_response)]
                     ELSE push_response
    /\ pending' = None
    /\ UNCHANGED <<tieBias, engineVars, blockchain_state, listener, ledger>>

----------------------------------------------------------------------------
(* oracle_listener.py: OracleListener *)

\* What the node and the chain do with one push_score call that gets as far as
\* building its transaction: the contract reverts (ContractLogicError), signing
\* or the network fails before the transaction is out, the receipt does not
\* arrive, or the receipt arrives with status 0 or 1.
Outcomes == {"revert", "sign_error", "network_error", "timeout", "status0", "status1"}

\* The outcomes in which send_raw_transaction returned: the transaction is out.
Sent == {"timeout", "status0", "status1"}

\* tx_hash.hex() of the n-th transaction
TxHash(n) == "0x" \o ToString(n)

\* Web3.to_checksum_address raises on what is not an address.
is_address(a) == a \in Wallets

\* OracleListener.connect
OracleListener_connect ==
    /\ \E outcome \in {"ok", "unreachable", "error"} :
         /\ listener' = [listener EXCEPT
                            !.w3 = TRUE,
                            !.account = IF outcome = "ok" /\ listener.private_key
                                        THEN TRUE ELSE @]
         /\ lastCall' = [op |-> "OracleListener.connect", outcome |-> outcome]
         /\ response' = [kind |-> "bool", value |-> (outcome = "ok")]
    /\ UNCHANGED <<tieBias, engineVars, blockchain_state, ledger, pending>>

\* OracleListener.load_contract
OracleListener_load_contract ==
    /\ \E outcome \in {"ok", "error"} :
         LET ready == listener.w3 /\ listener.oracle_address
             loaded == ready /\ outcome = "ok"
         IN  /\ listener' = [listener EXCEPT
                                !.oracle_contract = IF loaded THEN TRUE ELSE @]
             /\ lastCall' = [op |-> "OracleListener.load_contract",
                             outcome |-> outcome]
             /\ response' = [kind |-> "bool", value |-> loaded]
    /\ UNCHANGED <<tieBias, engineVars, blockchain_state, ledger, pending>>

\* OracleListener.push_score, to where it builds the transaction: the early
\* returns (not configured, score out of range) and the address that
\* to_checksum_address rejects.
push_score_builds(user_address, s) ==
    /\ listener.oracle_contract /\ listener.account
    /\ 0 <= s /\ s <= 100
    /\ is_address(user_address)

\* push_score_returns without the test of the receipt's status; a variant that
\* C13 rules out.
push_score_returns_any_receipt(user_address, s, outcome, n) ==
    IF push_score_builds(user_address, s) /\ outcome \in {"status0", "status1"}
    THEN Some(TxHash(n))
    ELSE None

\* OracleListener.push_score: what it returns, n being the transaction's number.
push_score_returns(user_address, s, outcome, n) ==
    IF push_score_builds(user_address, s) /\ outcome = "status1"
    THEN Some(TxHash(n))
    ELSE None

OracleListener_push_score ==
    /\ \E user_address \in Addresses, s \in ListenerScores :
         \E outcome \in IF push_score_builds(user_address, s) THEN Outcomes ELSE {"none"} :
             LET n == Len(ledger) + 1
                 sends == outcome \in Sent
             IN  /\ sends => Len(ledger) < MaxLedger
                 /\ ledger' = IF sends
                              THEN Append(ledger,
                                       [user_address |-> user_address, score |-> s,
                                        tx_hash |-> TxHash(n),
                                        receipt |-> IF outcome = "status1" THEN Some(1)
                                                    ELSE IF outcome = "status0" THEN Some(0)
                                                    ELSE None])
                              ELSE ledger
                 /\ lastCall' = [op |-> "OracleListener.push_score",
                                 user_address |-> user_address, score |-> s,
                                 outcome |-> outcome]
                 /\ response' = [kind |-> "Optional[str]",
                                 value |-> push_score_returns(user_address, s, outcome, n)]
    /\ UNCHANGED <<tieBias, engineVars, blockchain_state, listener, pending>>

----------------------------------------------------------------------------
(* The backend: handlers, the listener and the connection state *)

Next ==
    \/ SetConnected
    \/ HealthCheck
    \/ EvaluateUser
    \/ PushScore
    \/ EvaluateAndPush_evaluate
    \/ EvaluateAndPush_push
    \/ OracleListener_connect
    \/ OracleListener_load_contract
    \/ OracleListener_push_score

Spec == Init /\ [][Next]_vars

----------------------------------------------------------------------------
(* Claims about the score engine, checked under SpecEngine *)

\* C1: for every valid metrics record, transaction_count = 0 and
\* successful_transactions > transaction_count included, calculate_score returns
\* without raising, and what it returns is an integer from 0 to 100.
C1_ScoreWithinRange ==
    /\ pc # "raised"
    /\ pc # "calculate_score" => score # None
    /\ score # None => score[1] \in 0..100

\* C1 witness: a score was computed for a record with no transactions and more
\* successes than transactions, and for one whose sum before clamping is over 100.
C1_Witness ==
    /\ pc = "done"
    /\ metrics.transaction_count = 0
    /\ metrics.successful_transactions > metrics.transaction_count
    /\ score[1] \in 0..100
    /\ \E m \in UserMetrics : raw_score(m) > 100 * Scale /\ calculate_score(m) = 100

\* n / Scale rounded to the nearest integer, a tie going away from zero.
RoundHalfAwayFromZero(n) ==
    LET a == Abs(n)
        q == (2 * a + Scale) \div (2 * Scale)
    IN  IF n < 0 THEN 0 - q ELSE q

\* C7 as the specification states it: the final score is the sum rounded to the
\* nearest integer, a tie going away from zero, then clamped.  Stated on the
\* records whose terms are all exact in binary, where the sum of the model is the
\* double the code holds.
C7_Original_TiesAwayFromZero ==
    (pc = "done" /\ ~IsIrrational(metrics) /\ ~Inexact(metrics)) =>
        score[1] = Max(0, Min(100, RoundHalfAwayFromZero(raw_score(metrics))))

\* The sum of the claim: 50, plus the contributions that apply, minus the
\* penalties that apply.
ClaimSum(m) ==
    50 * Scale
    + age_bonus(m)
    + (IF m.transaction_count > 0 THEN success_bonus(m) ELSE 0)
    + volume_bonus(m)
    + (IF 1 <= m.frequency_per_day /\ m.frequency_per_day <= 50
       THEN frequency_bonus(m) ELSE 0)
    + (IF m.variance_score # None /\ m.variance_score[1] < 300
       THEN variance_bonus(m) ELSE 0)
    - dispute_penalty(m)
    - (IF m.account_age_days < 30 THEN new_account_penalty(m) ELSE 0)
    - (IF m.frequency_per_day > 100 THEN high_freq_penalty(m) ELSE 0)
    - (IF m.avg_transaction_value < 100 /\ m.frequency_per_day > 50
       THEN 15 * Scale ELSE 0)

\* k is an integer nearest to the sum n (n exact, or the floor of an irrational).
IsNearest(k, n, irrational) ==
    IF irrational
    THEN 2 * k * Scale - Scale <= 2 * n /\ 2 * n < 2 * k * Scale + Scale
    ELSE 2 * k * Scale - Scale <= 2 * n /\ 2 * n <= 2 * k * Scale + Scale

IsTie(n, irrational) == ~irrational /\ (2 * n) % (2 * Scale) = Scale

\* C7, amended: the final score is the sum 50 + contributions - penalties rounded
\* to a nearest integer and then clamped to [0,100]; a sum that is an exact tie
\* goes to the even neighbour whenever every term is exact in binary (a tie of a
\* sum with inexact terms may go to either neighbour).
C7_TiesToEven ==
    pc = "done" =>
        \E k \in -50..200 :
            /\ score[1] = Max(0, Min(100, k))
            /\ IsNearest(k, ClaimSum(metrics), IsIrrational(metrics))
            /\ (IsTie(ClaimSum(metrics), IsIrrational(metrics)) /\ ~Inexact(metrics))
                   => k % 2 = 0

\* C7 witness: a score was computed from a sum that is an exact tie below an odd
\* integer, strictly inside the range, and is the even integer below the sum.
C7_Witness ==
    /\ pc = "done"
    /\ IsTie(ClaimSum(metrics), IsIrrational(metrics)) /\ ~Inexact(metrics)
    /\ 2 * score[1] * Scale + Scale = 2 * ClaimSum(metrics)
    /\ score[1] \in 1..99

\* How many of the conditions hold.
Count(conditions) == Cardinality({i \in DOMAIN conditions : conditions[i]})

\* C6: the breakdown of get_score_details has an entry for exactly the factors and
\* penalties that apply: age and volume always, success rate iff transaction_count
\* > 0, frequency iff 0.1 <= frequency_per_day <= 5, a low-variance entry iff
\* variance_score is present and < 30, disputes iff the penalty is not zero, new
\* account iff account_age_days < 30, high frequency iff frequency_per_day > 10, a
\* wash-trading entry iff avg_transaction_value < 10 and frequency_per_day > 5.
C6_BreakdownListsAppliedTerms ==
    pc = "done" =>
        LET m == metrics
            factors == details[1].factors
            penalties == details[1].penalties
        IN  /\ "account_age" \in DOMAIN factors
            /\ "transaction_volume" \in DOMAIN factors
            /\ "success_rate" \in DOMAIN factors <=> m.transaction_count > 0
            /\ "frequency" \in DOMAIN factors <=>
                   (1 <= m.frequency_per_day /\ m.frequency_per_day <= 50)
            /\ "disputes" \in DOMAIN penalties <=> dispute_penalty(m) # 0
            /\ "new_account" \in DOMAIN penalties <=> m.account_age_days < 30
            /\ "high_frequency" \in DOMAIN penalties <=> m.frequency_per_day > 100
            /\ Cardinality(DOMAIN factors) =
                   2 + Count(<<m.transaction_count > 0,
                               1 <= m.frequency_per_day /\ m.frequency_per_day <= 50,
                               m.variance_score # None /\ m.variance_score[1] < 300>>)
            /\ Cardinality(DOMAIN penalties) =
                   Count(<<dispute_penalty(m) # 0,
                           m.account_age_days < 30,
                           m.frequency_per_day > 100,
                           m.avg_transaction_value < 100 /\ m.frequency_per_day > 50>>)

\* C8: with every other field fixed, a larger account_age_days never gives a
\* smaller final score.
C8_MonotoneInAccountAge ==
    pc = "done" =>
        \A a2 \in Ages :
            a2 >= metrics.account_age_days =>
                calculate_score([metrics EXCEPT !.account_age_days = a2]) >= score[1]

\* C8 witness: a new account (under 30 days) was scored, strictly inside the range,
\* and the same record aged past the cap of the age bonus scores strictly more.
C8_Witness ==
    /\ pc = "done"
    /\ metrics.account_age_days = 29
    /\ score[1] \in 1..99
    /\ calculate_score([metrics EXCEPT !.account_age_days = 30]) > score[1]
    /\ calculate_score([metrics EXCEPT !.account_age_days = 548]) =
           calculate_score([metrics EXCEPT !.account_age_days = 547])

\* C9: with every other field fixed, a larger dispute_count never gives a larger
\* final score, and from 6 disputes on the score no longer changes.
C9_MonotoneInDisputes ==
    pc = "done" =>
        \A d2 \in Disputes :
            d2 >= metrics.dispute_count =>
                /\ calculate_score([metrics EXCEPT !.dispute_count = d2]) <= score[1]
                /\ metrics.dispute_count >= 6 =>
                       calculate_score([metrics EXCEPT !.dispute_count = d2]) = score[1]

\* C9 witness: a record with 6 disputes was scored, strictly inside the range; with
\* 5 disputes it scores more and with more than 6 the same.
C9_Witness ==
    /\ pc = "done"
    /\ metrics.dispute_count = 6
    /\ score[1] \in 1..99
    /\ calculate_score([metrics EXCEPT !.dispute_count = 5]) > score[1]
    /\ \E d2 \in Disputes :
           d2 > 6 /\ calculate_score([metrics EXCEPT !.dispute_count = d2]) = score[1]

----------------------------------------------------------------------------
(* Claims about the handlers, checked under Spec *)

\* The last call was POST /push-score.
IsPush == lastCall.op = "push_score"

\* The last call was POST /evaluate-and-push and it has run to its end, through
\* both of its calls.
IsEvaluateAndPushDone ==
    lastCall.op = "evaluate_and_push" /\ pending = None /\ Len(lastCall.calls) = 2

\* C2: get_tier_from_score is defined on every score from 0 to 100; it is FULL
\* exactly from 80 up, LIMITED exactly from 50 to 79, BLOCKED exactly below 50 (80
\* and 50 belong to the higher tier), and the tier of every evaluation is the tier
\* of its score.
C2_TierBoundaries ==
    /\ \A s \in 0..100 :
         /\ get_tier_from_score(s) \in {"FULL", "LIMITED", "BLOCKED"}
         /\ get_tier_from_score(s) = "FULL" <=> s >= 80
         /\ get_tier_from_score(s) = "LIMITED" <=> (50 <= s /\ s < 80)
         /\ get_tier_from_score(s) = "BLOCKED" <=> s < 50
    /\ response.kind = "EvaluateResponse" =>
         /\ response.tier = "FULL" <=> response.score >= 80
         /\ response.tier = "LIMITED" <=> (50 <= response.score /\ response.score < 80)
         /\ response.tier = "BLOCKED" <=> response.score < 50

\* C2 witness: an evaluation returned the score 80 with the tier FULL, and the
\* records of the boundary scores 79, 50 and 49 evaluate to LIMITED, LIMITED, BLOCKED.
C2_Witness ==
    /\ response.kind = "EvaluateResponse"
    /\ response.score = 80 /\ response.tier = "FULL"
    /\ evaluate_user("0xA1", Record79).score = 79
    /\ evaluate_user("0xA1", Record79).tier = "LIMITED"
    /\ evaluate_user("0xA1", Record50).score = 50
    /\ evaluate_user("0xA1", Record50).tier = "LIMITED"
    /\ evaluate_user("0xA1", Record49).score = 49
    /\ evaluate_user("0xA1", Record49).tier = "BLOCKED"

\* C3: a publication result carries a transaction reference only when the ledger
\* confirmed the submission of that score for that identity: some transaction on
\* the ledger for the same address and score has a receipt with status 1.
C3_ReferenceOnlyOnConfirmedSubmission ==
    (response.kind = "PushScoreResponse" /\ response.transaction_hash # None) =>
        \E i \in 1..Len(ledger) :
            /\ ledger[i].user_address = response.wallet_address
            /\ ledger[i].score = response.score
            /\ ledger[i].receipt = Some(1)

\* What publish returns in stub mode for this identity and score.
IsStubResult(r, wallet_address, s) ==
    /\ r.kind = "PushScoreResponse"
    /\ r.success
    /\ r.wallet_address = wallet_address
    /\ r.score = s
    /\ r.transaction_hash = None

\* C4: whenever publish reads the connection state as not connected, for every
\* score in [0,100] and every identity, its result has success = true, the same
\* identity and score and no transaction reference, and the step submits nothing
\* to the ledger.
C4_StubModeSucceeds ==
    /\ [](/\ (IsPush /\ ~lastCall.connected /\ lastCall.score \in 0..100) =>
               IsStubResult(response, lastCall.wallet_address, lastCall.score)
          /\ (IsEvaluateAndPushDone /\ ~lastCall.calls[2].connected) =>
               /\ IsStubResult(lastCall.calls[2].returned,
                               lastCall.wallet_address, lastCall.calls[2].score)
               /\ IsStubResult(response,
                               lastCall.wallet_address, lastCall.calls[2].score))
    /\ [][(lastCall'.op \in {"push_score", "evaluate_and_push"}) => ledger' = ledger]_vars

\* C4 witness: publish ran in stub mode after the connection had been up and a
\* transaction had reached the ledger, and returned the stub result.
C4_Witness ==
    /\ IsPush /\ ~lastCall.connected /\ lastCall.score = 100
    /\ lastCall.wallet_address = "0xB2"
    /\ IsStubResult(response, "0xB2", 100)
    /\ ledger # <<>>

\* C5: publish with a score outside [0,100] ends in a validation error whether or
\* not the ledger is connected: it gives no result with success = true and no
\* transaction reference, and the step submits nothing to the ledger.
C5_OutOfRangeScoreRejected ==
    /\ []((IsPush /\ ~(lastCall.score \in 0..100)) =>
            /\ response.kind \in {"RequestValidationError", "HTTPException"}
            /\ response.status_code \in {400, 422})
    /\ [][(lastCall'.op = "push_score" /\ ~(lastCall'.score \in 0..100))
             => ledger' = ledger]_vars

\* C5 witness: publish was called while connected with the score 101 in a request
\* that had not been validated, and the handler's own check raised 400.
C5_Witness ==
    /\ IsPush /\ lastCall.connected /\ ~lastCall.validated /\ lastCall.score = 101
    /\ response.kind = "HTTPException" /\ response.status_code = 400

\* The sequence has the element.
Contains(seq, x) == \E i \in 1..Len(seq) : seq[i] = x

\* The sequence ends with the other.
EndsWith(seq, tail) ==
    /\ Len(tail) <= Len(seq)
    /\ SubSeq(seq, Len(seq) - Len(tail) + 1, Len(seq)) = tail

\* C10: evaluate_and_push evaluates first and publishes second; it publishes the
\* score the evaluation computed, for the same identity; the message of its result
\* has that score, the tier classified from it and the message of the publication.
C10_EvaluateThenPublish ==
    /\ pending # None =>
         /\ Len(pending[1].calls) = 1
         /\ pending[1].calls[1].fn = "evaluate_user"
    /\ IsEvaluateAndPushDone =>
         LET evaluated == lastCall.calls[1]
             published == lastCall.calls[2]
         IN  /\ evaluated.fn = "evaluate_user" /\ published.fn = "push_score"
             /\ evaluated.returned.score = calculate_score(lastCall.metrics)
             /\ published.score = evaluated.returned.score
             /\ published.wallet_address = lastCall.wallet_address
             /\ evaluated.wallet_address = lastCall.wallet_address
             /\ response.kind = "PushScoreResponse"
             /\ response.score = evaluated.returned.score
             /\ response.wallet_address = lastCall.wallet_address
             /\ Contains(response.message, ToString(evaluated.returned.score))
             /\ Contains(response.message, get_tier_from_score(evaluated.returned.score))
             /\ EndsWith(response.message, published.returned.message)

\* C10 witness: evaluate_and_push ran to its end for scenario A while connected:
\* score 100, tier FULL, and the publication's message at the end of the message.
C10_Witness ==
    /\ IsEvaluateAndPushDone
    /\ lastCall.metrics = ScenarioA
    /\ lastCall.calls[2].connected
    /\ response.kind = "PushScoreResponse" /\ response.score = 100
    /\ Contains(response.message, "100") /\ Contains(response.message, "FULL")
    /\ EndsWith(response.message, <<"Score pushed to blockchain">>)


\* C11: the result of evaluate_user is self-consistent: its score is the
\* final_score of the breakdown it returns, and its tier is the classification
\* of that score.
C11_EvaluateSelfConsistent ==
    (lastCall.op = "evaluate_user" /\ response.kind = "EvaluateResponse") =>
        /\ response.score = response.details.final_score
        /\ response.tier = get_tier_from_score(response.score)


\* The caps of the terms other than the success-rate bonus, and the sign of every
\* term, for the terms that apply to m.
CapsOtherThanSuccessRate(m) ==
    /\ 0 <= age_bonus(m) /\ age_bonus(m) <= 15 * Scale
    /\ has_success_rate(m) => 0 <= success_bonus(m)
    /\ 0 <= volume_bonus(m) /\ volume_bonus(m) <= 10 * Scale
    /\ has_frequency_bonus(m) =>
           (0 <= frequency_bonus(m) /\ frequency_bonus(m) <= 10 * Scale)
    /\ has_variance_bonus(m) =>
           (0 <= variance_bonus(m) /\ variance_bonus(m) <= 5 * Scale)
    /\ 0 <= dispute_penalty(m) /\ dispute_penalty(m) <= 30 * Scale
    /\ has_new_account_penalty(m) =>
           (0 <= new_account_penalty(m) /\ new_account_penalty(m) <= 10 * Scale)
    /\ has_high_freq_penalty(m) =>
           (0 <= high_freq_penalty(m) /\ high_freq_penalty(m) <= 20 * Scale)
    /\ has_wash_trading_penalty(m) => wash_trading_penalty = 15 * Scale

\* C12: every term of the score computed is within its cap and is not negative:
\* age bonus <= 15, success-rate bonus <= 20, volume bonus <= 10, frequency bonus
\* in [0,10], low-variance bonus <= 5, dispute penalty <= 30, new-account penalty
\* <= 10, high-frequency penalty <= 20, wash-trading penalty = 15.
C12_TermsWithinCaps ==
    pc = "done" =>
        /\ CapsOtherThanSuccessRate(metrics)
        /\ has_success_rate(metrics) => success_bonus(metrics) <= 20 * Scale

\* The same without the cap of the success-rate bonus.
TermsWithinCapsButSuccessRate == pc = "done" => CapsOtherThanSuccessRate(metrics)


----------------------------------------------------------------------------
(* Claims about OracleListener, under Spec *)

\* A step that is a call of OracleListener.push_score.  (A call that changes
\* nothing at all, a second identical failure, is a stuttering step.)
IsListenerPushStep ==
    /\ lastCall'.op = "OracleListener.push_score"
    /\ <<lastCall, ledger, response>>' # <<lastCall, ledger, response>>
    /\ blockchain_state' = blockchain_state

\* C13: a call of OracleListener.push_score returns (it never raises) and sends
\* at most one transaction; it returns a transaction reference only when it sent
\* a transaction, for the address and score it was given, whose receipt has
\* status 1, and the reference is that transaction's hash; in every outcome but
\* a receipt of status 1 it returns None; when the contract or the account is
\* not configured, or the score is outside [0,100], it sends nothing.
C13_ListenerPushScore ==
    [][IsListenerPushStep =>
         LET call == lastCall'
             sent == Len(ledger') - Len(ledger)
             last == ledger'[Len(ledger')]
         IN  /\ response'.kind = "Optional[str]"
             /\ sent \in {0, 1}
             /\ SubSeq(ledger', 1, Len(ledger)) = ledger
             /\ response'.value # None =>
                    /\ sent = 1
                    /\ last.receipt = Some(1)
                    /\ last.user_address = call.user_address
                    /\ last.score = call.score
                    /\ response'.value = Some(last.tx_hash)
             /\ call.outcome # "status1" => response'.value = None
             /\ (~listener.oracle_contract \/ ~listener.account
                   \/ call.score < 0 \/ call.score > 100) =>
                    (sent = 0 /\ response'.value = None)
    ]_vars

\* A call that sent a transaction whose receipt had status 1 returned its hash.
C13_Witness ==
    /\ lastCall.op = "OracleListener.push_score"
    /\ lastCall.outcome = "status1"
    /\ Len(ledger) = 1
    /\ ledger[1].receipt = Some(1)
    /\ response.value = Some(ledger[1].tx_hash)


----------------------------------------------------------------------------
(* Claims about what the handlers leave alone, under Spec *)

HandlerOps == {"health_check", "evaluate_user", "push_score", "evaluate_and_push"}

\* A step of one of main.py's handlers.  (A call that changes nothing at all,
\* the same request again, is a stuttering step; a change of the connection
\* state from outside leaves lastCall, response and pending as they are.)
IsHandlerStep ==
    /\ lastCall'.op \in HandlerOps
    /\ <<lastCall, response, pending>>' # <<lastCall, response, pending>>

\* C14: whatever the interleaving of handler calls, listener calls and changes
\* of the connection state from outside, no handler step changes the connection
\* state; a call of evaluate_user changes neither the connection state nor the
\* ledger, and its result is a function of its wallet address and metrics alone.
C14_HandlersLeaveConnectionAndLedger ==
    [][IsHandlerStep =>
         /\ blockchain_state' = blockchain_state
         /\ lastCall'.op = "evaluate_user" =>
                /\ ledger' = ledger
                /\ response' = evaluate_user(lastCall'.wallet_address, lastCall'.metrics)
         /\ (lastCall'.op = "evaluate_and_push" /\ pending = None) =>
                /\ ledger' = ledger
                /\ lastCall'.calls[1].returned =
                       evaluate_user(lastCall'.wallet_address, lastCall'.metrics)
    ]_vars

\* evaluate_user has answered after the connection state was changed from
\* outside and the listener sent a transaction: connected, one transaction on
\* the ledger.
C14_Witness ==
    /\ lastCall.op = "evaluate_user"
    /\ response.kind = "EvaluateResponse"
    /\ blockchain_state.connected
    /\ Len(ledger) = 1

====
